---- MODULE Spec2Model ----
(***************************************************************************)
(* Payment settlement engine of soho-credit-v4: processPayment,            *)
(* processRepayment, adjustCreditLimit, registerAgent and the vault        *)
(* ledger, over the SQLite rows they read and write.                       *)
(*                                                                         *)
(* Money is counted in cents (1 USDC = 100).  Every amount the model uses  *)
(* is chosen so that fee = amount * feeBps / 10000 and the share           *)
(* arithmetic are whole numbers of cents, so the integer arithmetic below  *)
(* is the arithmetic the code performs on its REAL columns.                *)
(*                                                                         *)
(* A processPayment call is a process: its steps are the runs of code      *)
(* between two awaits (the event loop runs each without interruption), so  *)
(* calls interleave exactly at the awaits of the source.                   *)
(***************************************************************************)
EXTENDS Integers, Sequences, FiniteSets, TLC

\* ------------------------------------------------------------------------
\* Bounds of the model
\* ------------------------------------------------------------------------
\* number of processPayment calls of a behaviour
NumReqs == 2
\* number of ledger operations other than payments (repay, adjust, deposit,
\* withdraw, register, KYA) of a behaviour
MaxEnvOps == 2
\* order of the curve group the shards live in (secp256k1's n in the code)
CurveN == 7

\* ------------------------------------------------------------------------
\* Program constants (cents)
\* ------------------------------------------------------------------------
MERCHANT_FEE_BPS == 150
DEFAULT_CREDIT_LIMIT_USDC == 100000
MAX_CREDIT_LIMIT_USDC == 10000000
MAX_SINGLE_TX_USDC == 1000
RISK_THRESHOLD == 70
DEFAULT_RISK_SCORE == 50

\* ------------------------------------------------------------------------
\* Input domains
\* ------------------------------------------------------------------------
Reqs == 1..NumReqs
AgentIds == {"a1", "a2"}
Keys == {"k1", "k2"}
Amounts == {200, 400}
Lenders == {"L1"}
NoMerchant == "none"
\* agentPartialSignature: absent (or ""), a string that is not hex, a hex scalar
NoShard == [given |-> FALSE]
BadHex == [given |-> TRUE, hex |-> FALSE]
HexShard(n) == [given |-> TRUE, hex |-> TRUE, value |-> n]
NoAgent == [registered |-> FALSE]
NoTx == [exists |-> FALSE]
\* a field left out of a response object, a NULL column, a set flag
Undefined == "undefined"
Null == "null"
True == "true"

\* merchants table: m1 as seeded (fee_bps 150, active, sanctions_clean 1),
\* m2 registered with a rate of its own (registerMerchant's feeBps)
MerchantTable ==
  [m \in {"m1", "m2"} |->
     [fee_bps |-> IF m = "m1" THEN 150 ELSE 300,
      status |-> "active", sanctions_clean |-> TRUE]]

\* sanctioned_addresses / KNOWN_SANCTIONED_ENTITIES / KNOWN_MIXER_CONTRACTS
SanctionedAddresses == {"sanctioned"}

\* ------------------------------------------------------------------------
\* Key material (generateMPCKeyPair): full scalar k, server shard s,
\* agent shard (k - s) mod n, public key derived from k
\* ------------------------------------------------------------------------
\* the % of BigInt: the remainder takes the sign of the dividend
rem(a, b) == IF a >= 0 THEN a % b ELSE 0 - ((0 - a) % b)

\* a mod that hands back what % gives
modUnfixed(a, b) == rem(a, b)

\* mpc/index.ts:271-274
mod(a, b) == LET result == rem(a, b) IN IF result >= 0 THEN result ELSE result + b

\* mpc/index.ts:262-264: toString(16) of a negative BigInt starts with "-",
\* which no BigInt("0x" + ...) parses
bigIntToHex(x) == IF x >= 0 THEN HexShard(x) ELSE BadHex

FullKeyOf(a) == IF a = "a1" THEN 3 ELSE 5
ServerShardOf(a) == IF a = "a1" THEN 5 ELSE 2
AgentShardOf(a) == mod(FullKeyOf(a) - ServerShardOf(a), CurveN)
getPublicKey(k) == <<"pub", k>>
WrongShardOf(a) == mod(AgentShardOf(a) + 1, CurveN)

\* the payment requests of the model: every kind of shard with both amounts
\* for the registered agent, a sanctioned recipient, an unknown agent
\* (PaymentRequestSchema: amountUsdc is positive)
PaymentInputs ==
  { req \in
      { [agentId |-> "a1", amountUsdc |-> amt, idempotencyKey |-> k,
         merchantId |-> m, recipientAddress |-> "clean",
         agentPartialSignature |-> sh] :
           amt \in Amounts, k \in Keys, m \in {"m1"},
           sh \in {NoShard, BadHex, HexShard(AgentShardOf("a1")),
                   HexShard(WrongShardOf("a1"))} }
      \cup
      { [agentId |-> "a1", amountUsdc |-> 200, idempotencyKey |-> k,
         merchantId |-> NoMerchant, recipientAddress |-> "sanctioned",
         agentPartialSignature |-> HexShard(AgentShardOf("a1"))] : k \in Keys }
      \cup
      { [agentId |-> "a2", amountUsdc |-> 200, idempotencyKey |-> k,
         merchantId |-> NoMerchant, recipientAddress |-> "clean",
         agentPartialSignature |-> NoShard] : k \in Keys }
    : req.amountUsdc > 0 }

\* payment.ts:197-199: fullKeyBig = ((serverBig + agentBig) % n + n) % n
ReconstructKey(a, shard) ==
  rem(rem(ServerShardOf(a) + shard.value, CurveN) + CurveN, CurveN)

\* mpc/index.ts:207-224: the scalar reconstructed from the two shards derives
\* the expected public key (a shard that does not parse, or the scalar 0, for
\* which getPublicKey throws, give false)
verifyShard(serverShard, shard, expectedPubKey) ==
  /\ shard.given /\ shard.hex
  /\ LET fullKeyBig == mod(serverShard + shard.value, CurveN)
     IN /\ fullKeyBig # 0
        /\ getPublicKey(fullKeyBig) = expectedPubKey

\* verifyAgentShard for the shard and key an agent registered with
verifyAgentShard(a, shard) ==
  verifyShard(ServerShardOf(a), shard, getPublicKey(FullKeyOf(a)))

\* the requests of the whole-ledger specification: payments that reserve
\* and then wait for the shard, settle, or are rolled back
LedgerPaymentInputs ==
  { req \in PaymentInputs :
      /\ req.recipientAddress = "clean"
      /\ req.agentPartialSignature \in {NoShard, HexShard(AgentShardOf(req.agentId))} }

VARIABLES
  agents,      \* agents table: id -> row, or NoAgent
  vault,       \* vault singleton row
  positions,   \* lender_positions rows, in creation order
  txs,         \* transactions table, by idempotency_key (UNIQUE)
  statusLog,   \* per transaction: every status written, in order
  repayments,  \* repayments table: sequence of [agentId, amount]
  liveMode,    \* TRUE when getChain("base") is a BaseChainLive
  pc,          \* position of each processPayment call
  call,        \* locals of each processPayment call
  result,      \* what each processPayment call returned or threw
  solo,        \* TRUE while nothing but the call itself acted since it began
  envOps,      \* number of ledger operations other than payments so far
  calc         \* the last call of a function that touches no table

vars == <<agents, vault, positions, txs, statusLog, repayments, liveMode,
          pc, call, result, solo, envOps, calc>>

ledger == <<agents, vault, positions, txs, statusLog, repayments, liveMode,
            pc, call, result, solo, envOps>>

NoCalc == [op |-> "none"]

\* ------------------------------------------------------------------------
\* Vault ledger
\* ------------------------------------------------------------------------
availableLiquidity(v) == v.totalDeposits - v.totalLent

\* a reserveLiquidity without its liquidity check
CanReserveUnchecked(v, amount) == TRUE

\* part_001:172-177: reserveLiquidity does not throw
CanReserve(v, amount) == ~(amount > availableLiquidity(v))

reserveLiquidity(v, amount) == [v EXCEPT !.totalLent = @ + amount]

returnLiquidity(v, amount) == [v EXCEPT !.totalLent = @ - amount]

processFeeIntoVault(v, fee) ==
  IF fee <= 0 THEN v
  ELSE [v EXCEPT !.totalFeesEarned = @ + fee, !.totalDeposits = @ + fee]

\* ------------------------------------------------------------------------
\* processPayment
\* ------------------------------------------------------------------------
IdleCall == [started |-> FALSE]
NoChecks == [allPassed |-> FALSE, pending |-> TRUE]
NoResult == [kind |-> "none"]

FeeBpsOf(m) == IF m # NoMerchant /\ m \in DOMAIN MerchantTable
               THEN MerchantTable[m].fee_bps ELSE MERCHANT_FEE_BPS

FeeOf(amount, feeBps) == (amount * feeBps) \div 10000

\* payment.ts:59-66: the snapshot returned for an existing idempotency key
IdempotentResult(tx) ==
  [kind |-> "ok", transactionId |-> tx.id, status |-> tx.status,
   permissionChecks |-> tx.permission_checks, feeUsdc |-> tx.fee_usdc,
   netAmountUsdc |-> tx.net_amount_usdc, txHash |-> tx.tx_hash,
   awaitingAgentSignature |-> Undefined]

OkResult(c, status, txHash, awaiting) ==
  [kind |-> "ok", transactionId |-> <<"tx", c.idempotencyKey>>, status |-> status,
   permissionChecks |-> c.permChecks, feeUsdc |-> c.feeUsdc,
   netAmountUsdc |-> c.netAmountUsdc, txHash |-> txHash,
   awaitingAgentSignature |-> awaiting]

ErrorResult(what) == [kind |-> "error", error |-> what]

\* every step of a call ends the solo run of every other call
SoloAfter(r) == [x \in Reqs |-> IF x = r THEN solo[x] ELSE FALSE]

\* an idempotency gate that resumes a record left in signing when the retry
\* carries a shard
IdempotentResume(r, req) ==
  /\ pc' = [pc EXCEPT ![r] = "done"]
  /\ result' = [result EXCEPT ![r] = IdempotentResult(txs[req.idempotencyKey])]
  /\ call' = [call EXCEPT ![r] =
        [started |-> TRUE, replay |-> TRUE, begun |-> FALSE,
         agentId |-> req.agentId, idempotencyKey |-> req.idempotencyKey,
         agentPartialSignature |-> req.agentPartialSignature,
         quiet |-> \A x \in Reqs : pc[x] \in {"idle", "done"}]]
  /\ txs' = [txs EXCEPT ![req.idempotencyKey].status =
               IF @ = "signing" /\ req.agentPartialSignature # NoShard
               THEN "broadcasting" ELSE @]
  /\ UNCHANGED <<agents, vault, statusLog>>

\* payment.ts:55-67: the idempotency gate found a record: return its
\* snapshot, write nothing (quiet: no other call was between two of its
\* steps when this one ran)
IdempotentReturn(r, req) ==
  /\ pc' = [pc EXCEPT ![r] = "done"]
  /\ result' = [result EXCEPT ![r] = IdempotentResult(txs[req.idempotencyKey])]
  /\ call' = [call EXCEPT ![r] =
        [started |-> TRUE, replay |-> TRUE, begun |-> FALSE,
         agentId |-> req.agentId, idempotencyKey |-> req.idempotencyKey,
         agentPartialSignature |-> req.agentPartialSignature,
         quiet |-> \A x \in Reqs : pc[x] \in {"idle", "done"}]]
  /\ UNCHANGED <<agents, vault, txs, statusLog>>

\* payment.ts:34: recipientAgentId is an optional field of the request
RecipientAgentOf(req) ==
  IF "recipientAgentId" \in DOMAIN req THEN req.recipientAgentId ELSE Undefined

\* payment.ts:69-102 and the synchronous head of runPermissionChecks
\* (part_013:830-851: credit gate, screenAddress), up to the first await
Begin(r, req) ==
  LET a == req.agentId
      amt == req.amountUsdc
      fee == FeeOf(amt, FeeBpsOf(req.merchantId))
  IN
  /\ UNCHANGED <<agents, vault, txs, statusLog>>
  /\ IF agents[a] = NoAgent
     THEN /\ pc' = [pc EXCEPT ![r] = "done"]
          /\ result' = [result EXCEPT ![r] = ErrorResult("Agent not found")]
          /\ call' = [call EXCEPT ![r] =
                [started |-> TRUE, replay |-> FALSE, begun |-> FALSE,
                 agentId |-> a, idempotencyKey |-> req.idempotencyKey,
                 agentPartialSignature |-> req.agentPartialSignature]]
     ELSE /\ pc' = [pc EXCEPT ![r] = "verdict"]
          /\ result' = result
          /\ call' = [call EXCEPT ![r] =
                [started |-> TRUE, replay |-> FALSE, begun |-> TRUE,
                 agentId |-> a, amountUsdc |-> amt,
                 idempotencyKey |-> req.idempotencyKey,
                 merchantId |-> req.merchantId,
                 recipientAgentId |-> RecipientAgentOf(req),
                 recipientAddress |-> req.recipientAddress,
                 agentPartialSignature |-> req.agentPartialSignature,
                 agent |-> agents[a],
                 feeUsdc |-> fee, netAmountUsdc |-> amt - fee,
                 creditCheck |-> (amt <= agents[a].creditLimitUsdc
                                         - agents[a].usedCreditUsdc),
                 sanctionsCheck |->
                    (req.recipientAddress \notin SanctionedAddresses),
                 permChecks |-> NoChecks,
                 preVault |-> vault,
                 chain |-> "none",
                 inserted |-> FALSE, reserved |-> FALSE,
                 fullKeyHex |-> Undefined]]

\* a processPayment call begins (calls are numbered in the order they begin)
Start(r, inputs) ==
  /\ pc[r] = "idle"
  /\ \A x \in Reqs : x < r => pc[x] # "idle"
  /\ solo' = [x \in Reqs |-> x = r]
  /\ UNCHANGED <<positions, repayments, liveMode, envOps, calc>>
  /\ \E req \in inputs :
       IF txs[req.idempotencyKey] # NoTx
       THEN IdempotentReturn(r, req)
       ELSE Begin(r, req)

\* the aggregate with the risk gate left out
AllPassedSkipsRisk(credit, sanctions, merchant, kya, risk) ==
  credit /\ sanctions /\ merchant /\ kya

\* part_013:898-903: allPassed is the conjunction of the five gates
AllPassed(credit, sanctions, merchant, kya, risk) ==
  credit /\ sanctions /\ merchant /\ kya /\ risk

\* runPermissionChecks after its await: merchant, KYA and risk gates
Verdict(r) ==
  /\ pc[r] = "verdict"
  /\ LET c == call[r]
         m == c.merchantId
         merchantCheck ==
           IF m # NoMerchant
           THEN /\ m \in DOMAIN MerchantTable
                /\ MerchantTable[m].status = "active"
                /\ MerchantTable[m].sanctions_clean
           ELSE IF c.recipientAgentId # Undefined
           THEN /\ agents[c.recipientAgentId] # NoAgent
                /\ agents[c.recipientAgentId].status = "active"
           ELSE TRUE
         kyaCheck == c.agent.kyaStatus = "approved"
         riskCheck == c.agent.status = "active" /\ c.agent.riskScore <= RISK_THRESHOLD
         reasons ==
           (IF c.creditCheck THEN <<>> ELSE <<"credit">>) \o
           (IF c.sanctionsCheck THEN <<>> ELSE <<"sanctions">>) \o
           (IF merchantCheck THEN <<>> ELSE <<"merchant">>) \o
           (IF kyaCheck THEN <<>> ELSE <<"kya">>) \o
           (IF riskCheck THEN <<>> ELSE <<"risk">>)
         checks ==
           [creditCheck |-> c.creditCheck, sanctionsCheck |-> c.sanctionsCheck,
            merchantCheck |-> merchantCheck, kyaCheck |-> kyaCheck,
            riskCheck |-> riskCheck,
            allPassed |-> AllPassed(c.creditCheck, c.sanctionsCheck,
                                    merchantCheck, kyaCheck, riskCheck),
            failureReasons |-> reasons]
     IN call' = [call EXCEPT ![r].permChecks = checks]
  /\ pc' = [pc EXCEPT ![r] = "create"]
  /\ solo' = SoloAfter(r)
  /\ UNCHANGED <<agents, vault, positions, txs, statusLog, repayments,
                 liveMode, result, envOps, calc>>

\* txQueries.updateStatus: settled_at is stamped when the status is confirmed
updateStatus(tx, status) ==
  [tx EXCEPT !.status = status,
             !.settled_at = IF status = "confirmed" THEN "now" ELSE @]

updateTxHash(tx, hash) == [tx EXCEPT !.tx_hash = hash]

\* an UPDATE of used_credit_usdc without its WHERE clause
updateCreditEveryRow(ag, a, used) ==
  [x \in DOMAIN ag |->
     IF ag[x] # NoAgent THEN [ag[x] EXCEPT !.usedCreditUsdc = used] ELSE ag[x]]

\* part_010:168-170: UPDATE agents SET used_credit_usdc = ? WHERE id = ?
updateCredit(ag, a, used) == [ag EXCEPT ![a].usedCreditUsdc = used]

\* payment.ts:114-128: the row txQueries.create inserts
NewTx(c) ==
  [exists |-> TRUE, id |-> <<"tx", c.idempotencyKey>>, agent_id |-> c.agentId,
   merchant_id |-> c.merchantId, amount_usdc |-> c.amountUsdc,
   fee_usdc |-> c.feeUsdc, net_amount_usdc |-> c.netAmountUsdc,
   status |-> IF c.permChecks.allPassed THEN "approved" ELSE "rejected",
   recipient_agent_id |-> IF c.recipientAgentId # Undefined
                          THEN c.recipientAgentId ELSE Null,
   type |-> IF c.recipientAgentId # Undefined
            THEN "agent_to_agent" ELSE "agent_to_merchant",
   tx_hash |-> Null,
   recipient_address |-> c.recipientAddress,
   permission_checks |-> c.permChecks,
   idempotency_key |-> c.idempotencyKey, settled_at |-> Null]

Finish(r, res) ==
  /\ pc' = [pc EXCEPT ![r] = "done"]
  /\ result' = [result EXCEPT ![r] = res]

\* an INSERT into a transactions table without the UNIQUE constraint
NoUniqueConstraint(k) == FALSE

\* part_010:75: idempotency_key TEXT UNIQUE: an INSERT of a key that has a
\* row throws
UniqueViolation(k) == txs[k] # NoTx

\* a rejection that does not return
RejectionIgnored(c) == FALSE

\* payment.ts:130-143: the verdict did not pass
Rejected(c) == ~c.permChecks.allPassed

\* payment.ts:110-187: insert the record, reject or reserve + debit, enter
\* signing, return when no shard was supplied, else await import("crypto")
\* (inserted, reserved: this call inserted the record, reserved and debited)
Create(r) ==
  /\ pc[r] = "create"
  /\ solo' = SoloAfter(r)
  /\ UNCHANGED <<positions, repayments, liveMode, envOps, calc>>
  /\ LET c == call[r]
         k == c.idempotencyKey
         tx == NewTx(c)
     IN
     IF UniqueViolation(k)
     THEN /\ Finish(r, ErrorResult("SqliteError"))
          /\ UNCHANGED <<agents, vault, txs, statusLog, call>>
     ELSE IF Rejected(c)
     THEN /\ txs' = [txs EXCEPT ![k] = tx]
          /\ statusLog' = [statusLog EXCEPT ![k] = <<tx.status>>]
          /\ call' = [call EXCEPT ![r].inserted = TRUE]
          /\ Finish(r, OkResult(c, "rejected", Undefined, Undefined))
          /\ UNCHANGED <<agents, vault>>
     ELSE IF ~CanReserve(vault, c.netAmountUsdc)
     THEN /\ txs' = [txs EXCEPT ![k] = updateStatus(tx, "failed")]
          /\ statusLog' = [statusLog EXCEPT ![k] = <<tx.status, "failed">>]
          /\ call' = [call EXCEPT ![r].inserted = TRUE]
          /\ Finish(r, ErrorResult("Vault liquidity error"))
          /\ UNCHANGED <<agents, vault>>
     ELSE /\ vault' = reserveLiquidity(vault, c.netAmountUsdc)
          /\ agents' = updateCredit(agents, c.agentId,
                                    c.agent.usedCreditUsdc + c.amountUsdc)
          /\ txs' = [txs EXCEPT ![k] = updateStatus(updateStatus(tx, "signing"), "signing")]
          /\ statusLog' = [statusLog EXCEPT ![k] = <<tx.status, "signing", "signing">>]
          /\ call' = [call EXCEPT ![r].inserted = TRUE, ![r].reserved = TRUE]
          /\ IF c.agentPartialSignature = NoShard
             THEN Finish(r, OkResult(c, "signing", Undefined, True))
             ELSE /\ pc' = [pc EXCEPT ![r] = "sign"]
                  /\ result' = result

\* payment.ts:248 reads signResult, which no scope declares: evaluating the
\* return value of the confirmed path throws a ReferenceError inside the try
SignResultDeclared == FALSE

\* a catch block that returns the gross amount to the vault
RollbackGross(r, log, tx, v, what) ==
  LET c == call[r]
      k == c.idempotencyKey
  IN /\ txs' = [txs EXCEPT ![k] = updateStatus(tx, "failed")]
     /\ statusLog' = [statusLog EXCEPT ![k] = log \o <<"failed">>]
     /\ vault' = returnLiquidity(v, c.amountUsdc)
     /\ agents' = updateCredit(agents, c.agentId, c.agent.usedCreditUsdc)
     /\ Finish(r, ErrorResult(what))

\* payment.ts:251-261: the catch block
Rollback(r, log, tx, v, what) ==
  LET c == call[r]
      k == c.idempotencyKey
  IN /\ txs' = [txs EXCEPT ![k] = updateStatus(tx, "failed")]
     /\ statusLog' = [statusLog EXCEPT ![k] = log \o <<"failed">>]
     /\ vault' = returnLiquidity(v, c.netAmountUsdc)
     /\ agents' = updateCredit(agents, c.agentId, c.agent.usedCreditUsdc)
     /\ Finish(r, ErrorResult(what))

\* payment.ts:227-250: persist the hash, confirm, inject the fee, return
Settle(r, log) ==
  LET c == call[r]
      k == c.idempotencyKey
      hash == "0xhash"
      tx == updateStatus(updateTxHash(txs[k], hash), "confirmed")
      v == processFeeIntoVault(vault, c.feeUsdc)
      lg == log \o <<"confirmed">>
  IN IF SignResultDeclared
     THEN /\ txs' = [txs EXCEPT ![k] = tx]
          /\ statusLog' = [statusLog EXCEPT ![k] = lg]
          /\ vault' = v
          /\ agents' = agents
          /\ Finish(r, OkResult(c, "confirmed", hash, Undefined))
     ELSE Rollback(r, lg, tx, v, "ReferenceError")

\* payment.ts:199-200: fullKeyHex holds the reconstructed scalar as a string;
\* no statement of processPayment overwrites or clears it on any path
KeyAfterUse == "live"

\* payment.ts:190-225: decrypt the server shard, reconstruct the key, enter
\* broadcasting and call the chain (simulation: settle in the same run)
Sign(r) ==
  /\ pc[r] = "sign"
  /\ solo' = SoloAfter(r)
  /\ UNCHANGED <<positions, repayments, liveMode, envOps, calc>>
  /\ LET c == call[r]
         k == c.idempotencyKey
         sh == c.agentPartialSignature
     IN
     IF sh = BadHex
     THEN \* BigInt("0x" + shard) throws a SyntaxError
          /\ Rollback(r, statusLog[k], txs[k], vault, "SyntaxError")
          /\ call' = call
     ELSE LET log == statusLog[k] \o <<"broadcasting">> IN
          IF liveMode
          THEN /\ txs' = [txs EXCEPT ![k] = updateStatus(@, "broadcasting")]
               /\ statusLog' = [statusLog EXCEPT ![k] = log]
               /\ call' = [call EXCEPT ![r].chain = "pending",
                                        ![r].fullKeyHex = KeyAfterUse]
               /\ pc' = [pc EXCEPT ![r] = "broadcast"]
               /\ UNCHANGED <<agents, vault, result>>
          ELSE /\ call' = [call EXCEPT ![r].chain = "confirmed",
                                        ![r].fullKeyHex = KeyAfterUse]
               /\ Settle(r, log)

\* what transferUsdcWithKey can answer (base-live.ts:65-113)
ChainOutcomes(c) ==
  IF c.netAmountUsdc > MAX_SINGLE_TX_USDC
     \/ ReconstructKey(c.agentId, c.agentPartialSignature) = 0
  THEN {"throw"}
  ELSE {"confirmed", "reverted", "throw"}

\* payment.ts:210-261: the chain call answers; settle, or roll back
BroadcastDone(r) ==
  /\ pc[r] = "broadcast"
  /\ solo' = SoloAfter(r)
  /\ UNCHANGED <<positions, repayments, liveMode, envOps, calc>>
  /\ \E out \in ChainOutcomes(call[r]) :
       LET k == call[r].idempotencyKey IN
       /\ call' = [call EXCEPT ![r].chain = out]
       /\ IF out = "confirmed"
          THEN Settle(r, statusLog[k])
          ELSE Rollback(r, statusLog[k], txs[k], vault,
                        IF out = "throw" THEN "BroadcastError"
                        ELSE "Transaction failed onchain")

\* ------------------------------------------------------------------------
\* Ledger operations other than payments
\* ------------------------------------------------------------------------
EnvStep ==
  /\ envOps < MaxEnvOps
  /\ envOps' = envOps + 1
  /\ solo' = [x \in Reqs |-> FALSE]
  /\ UNCHANGED <<liveMode, pc, call, result, txs, statusLog, calc>>

\* a repayment amount that is not capped
MinUncapped(a, b) == a

Min(a, b) == IF a <= b THEN a ELSE b

RepayAmounts == {200, 400}

\* a repayment that restores the active status whatever the agent's state
RestoresAlways(agent, newUsedCredit) == TRUE

\* payment.ts:317-320: the agent was delinquent and has now paid
RestoresActive(agent, newUsedCredit) ==
  agent.status = "delinquent" /\ newUsedCredit = 0

\* payment.ts:279-340 (no await inside: one uninterrupted run)
processRepayment(a, amountUsdc) ==
  /\ EnvStep
  /\ agents[a] # NoAgent
  /\ LET agent == agents[a]
         actualRepayment == Min(amountUsdc, agent.usedCreditUsdc)
         newUsedCredit == agent.usedCreditUsdc - actualRepayment
     IN IF actualRepayment <= 0
        THEN UNCHANGED <<agents, vault, repayments, positions>>
        ELSE /\ repayments' = Append(repayments,
                                [agentId |-> a, amount |-> actualRepayment])
             /\ agents' = [agents EXCEPT ![a] =
                  [@ EXCEPT !.usedCreditUsdc = newUsedCredit,
                            !.status = IF RestoresActive(agent, newUsedCredit)
                                       THEN "active" ELSE @]]
             /\ vault' = returnLiquidity(vault, actualRepayment)
             /\ UNCHANGED positions

LimitInputs == {200, 400, 800, MAX_CREDIT_LIMIT_USDC + 1}

\* a limit check that knows no system maximum
LimitBelowUsage(agent, newLimitUsdc) == newLimitUsdc < agent.usedCreditUsdc

\* agent.ts:191-197: the two conditions adjustCreditLimit throws on
LimitRefused(agent, newLimitUsdc) ==
  \/ newLimitUsdc < agent.usedCreditUsdc
  \/ newLimitUsdc > MAX_CREDIT_LIMIT_USDC

\* agent.ts:187-204
adjustCreditLimit(a, newLimitUsdc) ==
  /\ EnvStep
  /\ agents[a] # NoAgent
  /\ IF LimitRefused(agents[a], newLimitUsdc)
     THEN UNCHANGED agents
     ELSE agents' = [agents EXCEPT ![a].creditLimitUsdc = newLimitUsdc]
  /\ UNCHANGED <<vault, repayments, positions>>

\* scheduler.ts:33-53: the daily job marks delinquent the active agents with
\* a balance whose last repayment is older than 1.5 repayment periods (which
\* of them are that late is the clock's choice)
checkDelinquencies ==
  /\ EnvStep
  /\ \E late \in SUBSET {a \in AgentIds : agents[a] # NoAgent} :
       agents' = [a \in AgentIds |->
                    IF /\ a \in late
                       /\ agents[a].usedCreditUsdc > 0
                       /\ agents[a].status = "active"
                    THEN [agents[a] EXCEPT !.status = "delinquent"]
                    ELSE agents[a]]
  /\ UNCHANGED <<vault, repayments, positions>>

\* agent.ts:37-159: the rows registerAgent writes; on a live chain it
\* reserves the credit limit in the vault (a failed reservation is caught)
RequestedLimits == {0, 400}

\* agent.ts:84-123: how step 7 of registerAgent ends: without a live chain
\* nothing is reserved or sent; reserveLiquidity throws when the vault cannot
\* cover the limit; after a reservation the USDC transfer confirms, is mined
\* as reverted (confirmed false), or one of the two transfers throws (the
\* catch block logs and goes on)
FundingOutcomes(live, canReserve) ==
  IF ~live THEN {"simulated"}
  ELSE IF ~canReserve THEN {"unreserved"}
  ELSE {"funded", "reverted", "threw"}

registerAgent(a, requestedCreditLimit) ==
  /\ EnvStep
  /\ agents[a] = NoAgent
  /\ LET creditLimit ==
           Min(IF requestedCreditLimit # 0 THEN requestedCreditLimit
               ELSE DEFAULT_CREDIT_LIMIT_USDC, MAX_CREDIT_LIMIT_USDC)
     IN \E funding \in FundingOutcomes(liveMode, CanReserve(vault, creditLimit)) :
          /\ agents' = [agents EXCEPT ![a] =
               [registered |-> TRUE, creditLimitUsdc |-> creditLimit,
                usedCreditUsdc |-> 0, status |-> "active",
                kyaStatus |-> "pending", riskScore |-> DEFAULT_RISK_SCORE,
                funding |-> funding, walletFunded |-> (funding = "funded")]]
          /\ vault' = IF funding \in {"funded", "reverted", "threw"}
                      THEN reserveLiquidity(vault, creditLimit)
                      ELSE vault
  /\ UNCHANGED <<repayments, positions>>

\* performKYA: the assessment registerAgent starts without awaiting it
KYAOutcomes == {[kyaStatus |-> "approved", riskScore |-> 20],
                [kyaStatus |-> "rejected", riskScore |-> 100]}

performKYA(a) ==
  /\ EnvStep
  /\ agents[a] # NoAgent
  /\ agents[a].kyaStatus = "pending"
  /\ \E o \in KYAOutcomes :
       agents' = [agents EXCEPT ![a].kyaStatus = o.kyaStatus,
                                ![a].riskScore = o.riskScore]
  /\ UNCHANGED <<vault, repayments, positions>>

\* getSharePrice as the fraction num/den
SharePriceNum(v) == IF v.totalShares = 0 THEN 1 ELSE v.totalDeposits
SharePriceDen(v) == IF v.totalShares = 0 THEN 1 ELSE v.totalShares

DepositAmounts == {201, 300}

\* part_001:54-92
processDeposit(lender, amountUsdc) ==
  /\ EnvStep
  /\ SharePriceNum(vault) > 0
  /\ (amountUsdc * SharePriceDen(vault)) % SharePriceNum(vault) = 0
  /\ LET sharesIssued == (amountUsdc * SharePriceDen(vault)) \div SharePriceNum(vault)
     IN /\ positions' = Append(positions,
              [lender_address |-> lender, deposited_usdc |-> amountUsdc,
               shares_owned |-> sharesIssued, earned_yield_usdc |-> 0])
        /\ vault' = [vault EXCEPT !.totalDeposits = @ + amountUsdc,
                                  !.totalShares = @ + sharesIssued]
  /\ UNCHANGED <<agents, repayments>>

\* part_001:118-128: the burn loop over the lender's positions, newest first
\* (ORDER BY created_at DESC); returns <<positions, remaining, ok>>
RECURSIVE BurnLoop(_, _, _, _, _, _)
BurnLoop(pos, i, lender, remaining, num, den) ==
  IF i = 0 \/ remaining <= 0 THEN <<pos, remaining, TRUE>>
  ELSE IF pos[i].lender_address # lender
  THEN BurnLoop(pos, i - 1, lender, remaining, num, den)
  ELSE IF pos[i].shares_owned = 0
  THEN \* 0/0: the yield is NaN, bound as NULL into a NOT NULL column
       <<pos, remaining, FALSE>>
  ELSE LET burnFromThis == Min(pos[i].shares_owned, remaining)
           originalValue == (burnFromThis * pos[i].deposited_usdc)
                               \div pos[i].shares_owned
           yieldForThis == (burnFromThis * num) \div den - originalValue
           p2 == [pos EXCEPT ![i].shares_owned = @ - burnFromThis,
                             ![i].earned_yield_usdc = @ + yieldForThis]
       IN BurnLoop(p2, i - 1, lender, remaining - burnFromThis, num, den)

\* every division of the burn loop is exact for these inputs
RECURSIVE BurnExact(_, _, _, _, _, _)
BurnExact(pos, i, lender, remaining, num, den) ==
  IF i = 0 \/ remaining <= 0 THEN TRUE
  ELSE IF pos[i].lender_address # lender
  THEN BurnExact(pos, i - 1, lender, remaining, num, den)
  ELSE IF pos[i].shares_owned = 0 THEN TRUE
  ELSE LET burnFromThis == Min(pos[i].shares_owned, remaining)
       IN /\ (burnFromThis * pos[i].deposited_usdc) % pos[i].shares_owned = 0
          /\ (burnFromThis * num) % den = 0
          /\ BurnExact(pos, i - 1, lender, remaining - burnFromThis, num, den)

WithdrawShares == {200, 600}

\* a withdrawal without its liquidity check
LiquidityUnchecked(v, amountUsdc) == FALSE

\* part_001:107: the payout exceeds what the vault has not lent out
InsufficientLiquidity(v, amountUsdc) == amountUsdc > availableLiquidity(v)

\* part_001:98-148; tolerance is the 0.001 share of part_001:130 in the
\* units the shares are counted in
processWithdrawalAt(lender, sharesToBurn, tolerance) ==
  /\ EnvStep
  /\ LET num == SharePriceNum(vault)
         den == SharePriceDen(vault)
         amountUsdc == (sharesToBurn * num) \div den
         burnt == BurnLoop(positions, Len(positions), lender, sharesToBurn, num, den)
     IN /\ (sharesToBurn * num) % den = 0
        /\ BurnExact(positions, Len(positions), lender, sharesToBurn, num, den)
        /\ IF InsufficientLiquidity(vault, amountUsdc)
           THEN UNCHANGED <<vault, positions>>
           ELSE IF ~burnt[3] \/ burnt[2] > tolerance
           THEN \* the db.transaction throws and rolls back
                UNCHANGED <<vault, positions>>
           ELSE /\ positions' = burnt[1]
                /\ vault' = [vault EXCEPT !.totalDeposits = @ - amountUsdc,
                                          !.totalShares = @ - sharesToBurn]
  /\ UNCHANGED <<agents, repayments>>

\* shares counted in cents: 0.001 share is less than one unit
CentTolerance == 0

processWithdrawal(lender, sharesToBurn) ==
  processWithdrawalAt(lender, sharesToBurn, CentTolerance)

\* shares and USDC counted in units of 0.0005: 0.001 share is two units
FineUnitsPerShare == 2000
FineTolerance == 2

processWithdrawalFine(lender, sharesToBurn) ==
  processWithdrawalAt(lender, sharesToBurn, FineTolerance)

\* ------------------------------------------------------------------------
\* Initial state: the database after migrate and seed (one agent registered
\* and KYA-approved, one lender deposit), no call in progress
\* ------------------------------------------------------------------------
InitDeposit == 600
InitLimits == {400}

Init ==
  /\ \E lim \in InitLimits :
       agents = [a \in AgentIds |->
          IF a = "a1"
          THEN [registered |-> TRUE, creditLimitUsdc |-> lim,
                usedCreditUsdc |-> 0, status |-> "active",
                kyaStatus |-> "approved", riskScore |-> 20,
                funding |-> "seeded", walletFunded |-> FALSE]
          ELSE NoAgent]
  /\ vault = [totalDeposits |-> InitDeposit, totalLent |-> 0,
              totalFeesEarned |-> 0, totalShares |-> InitDeposit]
  /\ positions = <<[lender_address |-> "L1", deposited_usdc |-> InitDeposit,
                    shares_owned |-> InitDeposit, earned_yield_usdc |-> 0]>>
  /\ txs = [k \in Keys |-> NoTx]
  /\ statusLog = [k \in Keys |-> <<>>]
  /\ repayments = <<>>
  /\ liveMode \in BOOLEAN
  /\ pc = [r \in Reqs |-> "idle"]
  /\ call = [r \in Reqs |-> IdleCall]
  /\ result = [r \in Reqs |-> NoResult]
  /\ solo = [r \in Reqs |-> FALSE]
  /\ envOps = 0
  /\ calc = NoCalc

Next ==
  \/ \E r \in Reqs : Start(r, LedgerPaymentInputs)
  \/ \E r \in Reqs : Verdict(r)
  \/ \E r \in Reqs : Create(r)
  \/ \E r \in Reqs : Sign(r)
  \/ \E r \in Reqs : BroadcastDone(r)
  \/ \E a \in AgentIds, amt \in RepayAmounts : processRepayment(a, amt)
  \/ \E a \in AgentIds, lim \in LimitInputs : adjustCreditLimit(a, lim)
  \/ \E a \in AgentIds, lim \in RequestedLimits : registerAgent(a, lim)
  \/ \E a \in AgentIds : performKYA(a)
  \/ \E l \in Lenders, amt \in DepositAmounts : processDeposit(l, amt)
  \/ \E l \in Lenders, sh \in WithdrawShares : processWithdrawal(l, sh)

Spec == Init /\ [][Next]_vars

\* the payment engine with repayments and limit adjustments only
NextPay ==
  \/ \E r \in Reqs : Start(r, PaymentInputs)
  \/ \E r \in Reqs : Verdict(r)
  \/ \E r \in Reqs : Create(r)
  \/ \E r \in Reqs : Sign(r)
  \/ \E r \in Reqs : BroadcastDone(r)
  \/ \E a \in AgentIds, amt \in RepayAmounts : processRepayment(a, amt)
  \/ \E a \in AgentIds, lim \in LimitInputs : adjustCreditLimit(a, lim)

PaySpec == Init /\ [][NextPay]_vars

\* payments, repayments and the delinquency job
NextRepay ==
  \/ \E r \in Reqs : Start(r, LedgerPaymentInputs)
  \/ \E r \in Reqs : Verdict(r)
  \/ \E r \in Reqs : Create(r)
  \/ \E r \in Reqs : Sign(r)
  \/ \E r \in Reqs : BroadcastDone(r)
  \/ \E a \in AgentIds, amt \in RepayAmounts : processRepayment(a, amt)
  \/ checkDelinquencies

RepaySpec == Init /\ [][NextRepay]_vars

\* the payment engine alone; the event loop runs every continuation that is
\* ready (weak fairness of the steps that follow an await of local work),
\* while nothing makes the chain provider answer
NextLive ==
  \/ \E r \in Reqs : Start(r, PaymentInputs)
  \/ \E r \in Reqs : Verdict(r)
  \/ \E r \in Reqs : Create(r)
  \/ \E r \in Reqs : Sign(r)
  \/ \E r \in Reqs : BroadcastDone(r)

LiveSpec ==
  /\ Init /\ [][NextLive]_vars
  /\ \A r \in Reqs : WF_vars(Verdict(r)) /\ WF_vars(Create(r)) /\ WF_vars(Sign(r))

\* two registered agents paying each other (agent_to_agent), with
\* repayments and the delinquency job
PeerInputs ==
  { req \in
      { [agentId |-> a, amountUsdc |-> 200, idempotencyKey |-> k,
         merchantId |-> NoMerchant, recipientAgentId |-> b,
         recipientAddress |-> "clean",
         agentPartialSignature |-> HexShard(AgentShardOf(a))] :
           a \in AgentIds, b \in AgentIds, k \in Keys }
    : req.agentId # req.recipientAgentId }

InitPeer ==
  /\ agents = [a \in AgentIds |->
        [registered |-> TRUE, creditLimitUsdc |-> 400,
         usedCreditUsdc |-> 0, status |-> "active",
         kyaStatus |-> "approved", riskScore |-> 20,
                funding |-> "seeded", walletFunded |-> FALSE]]
  /\ vault = [totalDeposits |-> InitDeposit, totalLent |-> 0,
              totalFeesEarned |-> 0, totalShares |-> InitDeposit]
  /\ positions = <<[lender_address |-> "L1", deposited_usdc |-> InitDeposit,
                    shares_owned |-> InitDeposit, earned_yield_usdc |-> 0]>>
  /\ txs = [k \in Keys |-> NoTx]
  /\ statusLog = [k \in Keys |-> <<>>]
  /\ repayments = <<>>
  /\ liveMode \in BOOLEAN
  /\ pc = [r \in Reqs |-> "idle"]
  /\ call = [r \in Reqs |-> IdleCall]
  /\ result = [r \in Reqs |-> NoResult]
  /\ solo = [r \in Reqs |-> FALSE]
  /\ envOps = 0
  /\ calc = NoCalc

NextPeer ==
  \/ \E r \in Reqs : Start(r, PeerInputs)
  \/ \E r \in Reqs : Verdict(r)
  \/ \E r \in Reqs : Create(r)
  \/ \E r \in Reqs : Sign(r)
  \/ \E r \in Reqs : BroadcastDone(r)
  \/ \E a \in AgentIds, amt \in RepayAmounts : processRepayment(a, amt)
  \/ checkDelinquencies

PeerSpec == InitPeer /\ [][NextPeer]_vars

\* the vault alone, counted in units of 0.0005: two lenders who deposited
\* 10 USDC each, further deposits of 5 and 10, and withdrawals of 5, 10,
\* 10.0005 and 10.0015 shares
FineLenders == {"L1", "L2"}
FineDeposits == {5 * FineUnitsPerShare, 10 * FineUnitsPerShare}
FineShares == {5 * FineUnitsPerShare, 10 * FineUnitsPerShare,
               10 * FineUnitsPerShare + 1, 10 * FineUnitsPerShare + 3}

InitVault ==
  /\ agents = [a \in AgentIds |->
        IF a = "a1"
        THEN [registered |-> TRUE, creditLimitUsdc |-> 400,
              usedCreditUsdc |-> 0, status |-> "active",
              kyaStatus |-> "approved", riskScore |-> 20,
                funding |-> "seeded", walletFunded |-> FALSE]
        ELSE NoAgent]
  /\ vault = [totalDeposits |-> 20 * FineUnitsPerShare, totalLent |-> 0,
              totalFeesEarned |-> 0, totalShares |-> 20 * FineUnitsPerShare]
  /\ positions =
       <<[lender_address |-> "L1", deposited_usdc |-> 10 * FineUnitsPerShare,
          shares_owned |-> 10 * FineUnitsPerShare, earned_yield_usdc |-> 0],
         [lender_address |-> "L2", deposited_usdc |-> 10 * FineUnitsPerShare,
          shares_owned |-> 10 * FineUnitsPerShare, earned_yield_usdc |-> 0]>>
  /\ txs = [k \in Keys |-> NoTx]
  /\ statusLog = [k \in Keys |-> <<>>]
  /\ repayments = <<>>
  /\ liveMode \in BOOLEAN
  /\ pc = [r \in Reqs |-> "idle"]
  /\ call = [r \in Reqs |-> IdleCall]
  /\ result = [r \in Reqs |-> NoResult]
  /\ solo = [r \in Reqs |-> FALSE]
  /\ envOps = 0
  /\ calc = NoCalc

NextVault ==
  \/ \E l \in FineLenders, amt \in FineDeposits : processDeposit(l, amt)
  \/ \E l \in FineLenders, sh \in FineShares : processWithdrawalFine(l, sh)

VaultSpec == InitVault /\ [][NextVault]_vars

\* payments whose agent shard is the scalar 0, the agent's shard plus the
\* group order, or the agent's shard itself
ShardInputs ==
  { req \in
      { [agentId |-> "a1", amountUsdc |-> amt, idempotencyKey |-> k,
         merchantId |-> "m1", recipientAddress |-> "clean",
         agentPartialSignature |-> HexShard(x)] :
           amt \in Amounts, k \in Keys,
           x \in {0, AgentShardOf("a1") + CurveN, AgentShardOf("a1")} }
    : req.amountUsdc > 0 }

NextShard ==
  \/ \E r \in Reqs : Start(r, ShardInputs)
  \/ \E r \in Reqs : Verdict(r)
  \/ \E r \in Reqs : Create(r)
  \/ \E r \in Reqs : Sign(r)
  \/ \E r \in Reqs : BroadcastDone(r)

ShardSpec == Init /\ [][NextShard]_vars

\* ------------------------------------------------------------------------
\* Key generation and shard verification (mpc/index.ts), over every pair of
\* scalars randomPrivateKey can draw
\* ------------------------------------------------------------------------
KeyScalars == 1..(CurveN - 1)

\* mpc/index.ts:38-87
generateMPCKeyPair ==
  /\ calc = NoCalc
  /\ \E fullKeyBig \in KeyScalars, serverShardBig \in KeyScalars :
       LET agentShardBig == mod(fullKeyBig - serverShardBig, CurveN)
           reconstructed == mod(serverShardBig + agentShardBig, CurveN)
       IN calc' =
            IF reconstructed # fullKeyBig
            THEN [op |-> "keygen", threw |-> TRUE,
                  fullKey |-> fullKeyBig, serverShard |-> serverShardBig]
            ELSE [op |-> "keygen", threw |-> FALSE,
                  fullKey |-> fullKeyBig, serverShard |-> serverShardBig,
                  agentShard |-> bigIntToHex(agentShardBig),
                  publicKey |-> getPublicKey(fullKeyBig)]
  /\ UNCHANGED ledger

\* the shards verifyAgentShard can be handed for a generated pair
CandidateShards == {HexShard(x) : x \in 0..(CurveN - 1)} \cup {BadHex, NoShard}

\* mpc/index.ts:207-224, called with the server shard and public key of a
\* generated pair
verifyGeneratedPair ==
  /\ calc.op = "keygen" /\ ~calc.threw
  /\ \E shard \in CandidateShards \cup {calc.agentShard} :
       calc' = [op |-> "verify", pair |-> calc, shard |-> shard,
                ok |-> verifyShard(calc.serverShard, shard, calc.publicKey)]
  /\ UNCHANGED ledger

NextKey ==
  \/ generateMPCKeyPair
  \/ verifyGeneratedPair

KeySpec == Init /\ [][NextKey]_vars

\* ------------------------------------------------------------------------
\* The vault arithmetic on floating-point numbers.  The amounts of the vault
\* are JavaScript numbers and SQLite REALs: every +, -, * and / rounds its
\* result to the nearest number with a fixed count of significant bits (ties
\* to even).  Here a number is a count of units of 2^-FracBits and has
\* MantissaBits significant bits (the code's have 53).
\* ------------------------------------------------------------------------
MantissaBits == 8
FracBits == 8
Unit == 2 ^ FracBits

\* the spacing of the representable numbers around q units
RECURSIVE Granule(_, _)
Granule(q, g) == IF q \div g < 2 ^ MantissaBits THEN g ELSE Granule(q, 2 * g)

\* num / den units, rounded to the nearest representable number (num >= 0)
RoundPos(num, den) ==
  LET g == Granule(num \div den, 1)
      d == den * g
      q == num \div d
      r == num % d
  IN (IF 2 * r > d \/ (2 * r = d /\ q % 2 = 1) THEN q + 1 ELSE q) * g

Round(num, den) ==
  IF num >= 0 THEN RoundPos(num, den) ELSE 0 - RoundPos(0 - num, den)

fadd(a, b) == Round(a + b, 1)
fsub(a, b) == Round(a - b, 1)
fmul(a, b) == Round(a * b, Unit)
fdiv(a, b) == Round(a * Unit, b)

\* number of vault operations of a behaviour
FlMaxOps == 4
FlDepositAmounts == {2 * Unit, 3 * Unit, 4 * Unit, 6 * Unit}
\* fees of 0.03125 and 1
FlFees == {Unit \div 32, Unit}

EmptyVault ==
  [op |-> "vault", totalDeposits |-> 0, totalLent |-> 0, totalFeesEarned |-> 0,
   totalShares |-> 0, positions |-> <<>>, ops |-> <<>>]

\* the vault and the one lender's positions the operations below act on
FlVault == IF calc = NoCalc THEN EmptyVault ELSE calc

FlStep ==
  /\ calc = NoCalc \/ calc.op = "vault"
  /\ Len(FlVault.ops) < FlMaxOps
  /\ UNCHANGED ledger

\* part_001:40-44
getSharePriceFl(v) ==
  IF v.totalShares = 0 THEN Unit ELSE fdiv(v.totalDeposits, v.totalShares)

\* part_001:54-92 with vaultQueries.updateDeposit
processDepositFl(amountUsdc) ==
  /\ FlStep
  /\ LET v == FlVault
         sharePrice == getSharePriceFl(v)
         sharesIssued == fdiv(amountUsdc, sharePrice)
     IN calc' = [v EXCEPT
          !.totalDeposits = fadd(@, amountUsdc),
          !.totalShares = fadd(@, sharesIssued),
          !.positions = Append(@, [deposited_usdc |-> amountUsdc,
                                   shares_owned |-> sharesIssued,
                                   earned_yield_usdc |-> 0]),
          !.ops = Append(@, [op |-> "deposit", amountUsdc |-> amountUsdc,
                             sharePrice |-> sharePrice,
                             sharesIssued |-> sharesIssued,
                             pre |-> [totalDeposits |-> v.totalDeposits,
                                      totalShares |-> v.totalShares]])]

\* part_001:159-166 with vaultQueries.addFees
processFeeIntoVaultFl(feeUsdc) ==
  /\ FlStep
  /\ feeUsdc > 0
  \* a fee comes from a payment, which lent out deposited money
  /\ FlVault.totalShares > 0
  /\ LET v == FlVault
     IN calc' = [v EXCEPT
          !.totalFeesEarned = fadd(@, feeUsdc),
          !.totalDeposits = fadd(@, feeUsdc),
          !.ops = Append(@, [op |-> "fee", feeUsdc |-> feeUsdc])]

\* part_001:118-128, newest position first; <<positions, remainingShares,
\* totalOriginalValue, ok>>
RECURSIVE BurnLoopFl(_, _, _, _, _)
BurnLoopFl(pos, i, remaining, total, sharePrice) ==
  IF i = 0 \/ remaining <= 0 THEN <<pos, remaining, total, TRUE>>
  ELSE IF pos[i].shares_owned = 0
  THEN <<pos, remaining, total, FALSE>>
  ELSE LET burnFromThis == Min(pos[i].shares_owned, remaining)
           originalValue == fmul(fdiv(burnFromThis, pos[i].shares_owned),
                                 pos[i].deposited_usdc)
           yieldForThis == fsub(fmul(burnFromThis, sharePrice), originalValue)
           p2 == [pos EXCEPT ![i].shares_owned = fsub(@, burnFromThis),
                             ![i].earned_yield_usdc = fadd(@, yieldForThis)]
       IN BurnLoopFl(p2, i - 1, fsub(remaining, burnFromThis),
                     fadd(total, originalValue), sharePrice)

\* the shares the first i positions hold together
RECURSIVE SharesHeld(_, _)
SharesHeld(pos, i) ==
  IF i = 0 THEN 0 ELSE pos[i].shares_owned + SharesHeld(pos, i - 1)

\* part_001:98-148 with vaultQueries.updateWithdraw
processWithdrawalFl(sharesToBurn) ==
  /\ FlStep
  /\ LET v == FlVault
         sharePrice == getSharePriceFl(v)
         amountUsdc == fmul(sharesToBurn, sharePrice)
         burnt == BurnLoopFl(v.positions, Len(v.positions), sharesToBurn, 0,
                             sharePrice)
         threw == \/ amountUsdc > fsub(v.totalDeposits, v.totalLent)
                  \/ ~burnt[4]
                  \/ burnt[2] > 0
         done == [op |-> "withdraw", sharesToBurn |-> sharesToBurn,
                  sharePrice |-> sharePrice, threw |-> threw,
                  amountUsdc |-> amountUsdc,
                  yieldEarned |-> fsub(amountUsdc, burnt[3]),
                  held |-> SharesHeld(v.positions, Len(v.positions)),
                  available |-> fsub(v.totalDeposits, v.totalLent),
                  pre |-> [totalDeposits |-> v.totalDeposits,
                           totalShares |-> v.totalShares,
                           positions |-> v.positions]]
     IN calc' = IF threw
                THEN [v EXCEPT !.ops = Append(@, done)]
                ELSE [v EXCEPT
                        !.totalDeposits = fsub(@, amountUsdc),
                        !.totalShares = fsub(@, sharesToBurn),
                        !.positions = burnt[1],
                        !.ops = Append(@, done)]

\* the shares the lender's newest deposit issued
NewestShares ==
  LET pos == FlVault.positions
  IN IF Len(pos) = 0 THEN {} ELSE {pos[Len(pos)].shares_owned} \ {0}

\* the shares the lender's oldest deposit still holds, and twice as many
OldestShares ==
  LET pos == FlVault.positions
  IN IF Len(pos) = 0 THEN {}
     ELSE {pos[1].shares_owned, 2 * pos[1].shares_owned} \ {0}

NextFl ==
  \/ \E amt \in FlDepositAmounts : processDepositFl(amt)
  \/ \E fee \in FlFees : processFeeIntoVaultFl(fee)
  \/ \E sh \in NewestShares \cup OldestShares : processWithdrawalFl(sh)

FloatSpec == Init /\ [][NextFl]_vars

\* ------------------------------------------------------------------------
\* The fee arithmetic of processPayment (payment.ts:89-96) on floating-point
\* numbers: the rate and 10000 are whole numbers the format holds exactly,
\* the amount is any number of the format
\* ------------------------------------------------------------------------
\* a * n and a / n for a whole number n
fmulInt(a, n) == Round(a * n, 1)
fdivInt(a, n) == Round(a, n)

\* the amounts of the format up to 4.0
FeeAmounts == {a \in 1..(4 * Unit) : Round(a, 1) = a}

\* no merchant, the seeded one, one with its own rate, an id with no row
FeeMerchants == {NoMerchant, "m1", "m2", "m9"}

\* payment.ts:89-96
calculateFees ==
  /\ calc = NoCalc
  /\ \E amountUsdc \in FeeAmounts, merchantId \in FeeMerchants :
       LET feeBps == FeeBpsOf(merchantId)
           feeUsdc == fdivInt(fmulInt(amountUsdc, feeBps), 10000)
           netAmountUsdc == fsub(amountUsdc, feeUsdc)
       IN calc' = [op |-> "fees", amountUsdc |-> amountUsdc,
                   merchantId |-> merchantId, feeBps |-> feeBps,
                   feeUsdc |-> feeUsdc, netAmountUsdc |-> netAmountUsdc]
  /\ UNCHANGED ledger

FeeSpec == Init /\ [][calculateFees]_vars

\* ------------------------------------------------------------------------
\* Claims
\* ------------------------------------------------------------------------
Registered == {a \in AgentIds : agents[a] # NoAgent}

RECURSIVE SumOver(_, _)
SumOver(S, f) ==
  IF S = {} THEN 0
  ELSE LET x == CHOOSE y \in S : TRUE IN f[x] + SumOver(S \ {x}, f)

\* gross amounts of the agent's transactions that hold a debit
DebitStatuses == {"signing", "broadcasting", "confirmed"}

DebitSum(a) ==
  LET held == {k \in Keys : /\ txs[k] # NoTx
                            /\ txs[k].agent_id = a
                            /\ txs[k].status \in DebitStatuses}
  IN SumOver(held, [k \in Keys |-> IF txs[k] # NoTx THEN txs[k].amount_usdc ELSE 0])

\* a call got as far as broadcasting (the chain transfer was invoked or the
\* simulated transfer marked confirmed)
Broadcasted(r) ==
  /\ call[r].started /\ call[r].begun
  /\ call[r].chain # "none"

\* C1: in every reachable state, under any interleaving of processPayment,
\* processRepayment and adjustCreditLimit, every agent has
\* 0 <= usedCredit <= creditLimit.
C1_CreditWithinLimit ==
  \A a \in Registered :
    /\ 0 <= agents[a].usedCreditUsdc
    /\ agents[a].usedCreditUsdc <= agents[a].creditLimitUsdc

\* C2: concurrent payments of one agent with distinct idempotency keys are
\* linearized: usedCredit equals the sum of the gross amounts of the agent's
\* transactions that hold a debit (signing, broadcasting, confirmed), and that
\* sum never exceeds creditLimit.  Stated for the behaviours with payments
\* only, where the amounts repaid are 0.
C2_UsedCreditIsSumOfDebits ==
  (envOps = 0) =>
    \A a \in Registered :
      /\ agents[a].usedCreditUsdc = DebitSum(a)
      /\ DebitSum(a) <= agents[a].creditLimitUsdc

C4_LentNonNegative == vault.totalLent >= 0

\* C5: a transaction enters broadcasting only if the supplied agent shard,
\* combined with the server shard, reconstructs the key of the agent's
\* registered public key.
C5_BroadcastOnlyWithValidShard ==
  \A r \in Reqs :
    Broadcasted(r) =>
      verifyAgentShard(call[r].agentId, call[r].agentPartialSignature)

\* a call whose chain transfer answered, and how
ChainAnswered(r, outcomes) ==
  /\ pc[r] = "done"
  /\ call[r].begun
  /\ call[r].chain \in outcomes

C7_ConfirmedPaymentReturnsConfirmed ==
  \A r \in Reqs :
    ChainAnswered(r, {"confirmed"}) =>
      /\ result[r].kind = "ok"
      /\ result[r].status = "confirmed"
      /\ txs[call[r].idempotencyKey].status = "confirmed"
      /\ solo[r] =>
            /\ agents[call[r].agentId].usedCreditUsdc
                 = call[r].agent.usedCreditUsdc + call[r].amountUsdc
            /\ vault.totalFeesEarned
                 = call[r].preVault.totalFeesEarned + call[r].feeUsdc

\* C8: terminal states are absorbing: no status is written to a transaction
\* after confirmed, failed or rejected.
TerminalStatuses == {"confirmed", "failed", "rejected"}

C8_TerminalStatesAbsorbing ==
  \A k \in Keys :
    \A i \in 1..Len(statusLog[k]) :
      statusLog[k][i] \in TerminalStatuses => i = Len(statusLog[k])

\* C9: a processPayment call whose idempotency key already has a record
\* creates and changes nothing: transactions, agents, vault, repayments and
\* lender positions are what they were, whatever the record's status and
\* whatever shard the call carries.
C9_ReplayHasNoSideEffects ==
  [][\A r \in Reqs :
       (pc[r] = "idle" /\ pc'[r] = "done" /\ call'[r].replay) =>
         /\ txs' = txs
         /\ agents' = agents
         /\ vault' = vault
         /\ repayments' = repayments
         /\ positions' = positions]_vars

\* C9 witness: a retry carrying a shard met a record still in signing, with
\* the debit and the reservation of the first call in place
C9_Witness ==
  \E r \in Reqs :
    /\ pc[r] = "done"
    /\ call[r].replay
    /\ call[r].agentPartialSignature # NoShard
    /\ txs[call[r].idempotencyKey].status = "signing"
    /\ result[r].status = "signing"
    /\ agents[call[r].agentId].usedCreditUsdc
         = txs[call[r].idempotencyKey].amount_usdc
    /\ vault.totalLent = txs[call[r].idempotencyKey].net_amount_usdc

\* C10: the same idempotency key submitted twice, the second time after the
\* first call ended, yields identical responses in every field.
C10_ReplayResponseIdentical ==
  \A r1, r2 \in Reqs :
    ( /\ r1 # r2
      /\ pc[r1] = "done" /\ pc[r2] = "done"
      /\ ~call[r1].replay /\ call[r1].begun
      /\ call[r2].replay /\ call[r2].quiet
      /\ call[r1].idempotencyKey = call[r2].idempotencyKey )
    => result[r2] = result[r1]

\* two calls that both passed the idempotency gate with the same key
SameKeyCalls(r1, r2) ==
  /\ r1 # r2
  /\ call[r1].started /\ call[r1].begun
  /\ call[r2].started /\ call[r2].begun
  /\ call[r1].idempotencyKey = call[r2].idempotencyKey

\* C11: of two concurrent processPayment calls carrying the same idempotency
\* key, at most one inserts the transaction record and at most one reserves
\* vault liquidity or debits agent credit, in every interleaving.
C11_OneMutationPerKey ==
  \A r1, r2 \in Reqs :
    SameKeyCalls(r1, r2) =>
      /\ ~(call[r1].inserted /\ call[r2].inserted)
      /\ ~(call[r1].reserved /\ call[r2].reserved)

\* C11 witness: both calls passed the gate before either inserted; one
\* reserved and debited, the other was stopped by the unique constraint
C11_Witness ==
  \E r1, r2 \in Reqs :
    /\ SameKeyCalls(r1, r2)
    /\ pc[r1] = "done" /\ pc[r2] = "done"
    /\ call[r1].reserved
    /\ result[r2] = ErrorResult("SqliteError")
    /\ vault.totalLent = call[r1].netAmountUsdc

\* C12: when the verdict has allPassed = false the transaction is recorded
\* with status rejected and returned as rejected, and (nothing else having
\* acted since the request began) the agent's row and every vault total are
\* what they were before the request.
C12_RejectedLeavesLedgerUntouched ==
  \A r \in Reqs :
    (/\ pc[r] = "done" /\ call[r].begun /\ call[r].inserted
     /\ ~call[r].permChecks.allPassed)
    => /\ txs[call[r].idempotencyKey].status = "rejected"
       /\ result[r].kind = "ok" /\ result[r].status = "rejected"
       /\ ~call[r].reserved
       /\ solo[r] => /\ agents[call[r].agentId] = call[r].agent
                     /\ vault = call[r].preVault

\* C12 witness: a request for more than the available credit was rejected on
\* the credit check alone
C12_Witness ==
  \E r \in Reqs :
    /\ pc[r] = "done" /\ call[r].begun /\ call[r].inserted /\ solo[r]
    /\ ~call[r].permChecks.creditCheck
    /\ call[r].permChecks.failureReasons = <<"credit">>
    /\ call[r].amountUsdc
         > call[r].agent.creditLimitUsdc - call[r].agent.usedCreditUsdc
    /\ txs[call[r].idempotencyKey].status = "rejected"

\* C13: when an approved payment's netAmount exceeds the available liquidity
\* the transaction is marked failed, a liquidity error is raised, and neither
\* usedCredit nor totalLent (nor any vault total) has changed.
C13_LiquidityFailureLeavesLedgerUntouched ==
  \A r \in Reqs :
    /\ (/\ pc[r] = "done" /\ call[r].begun /\ call[r].inserted /\ solo[r]
        /\ call[r].permChecks.allPassed
        /\ call[r].netAmountUsdc > availableLiquidity(call[r].preVault))
       => /\ txs[call[r].idempotencyKey].status = "failed"
          /\ result[r] = ErrorResult("Vault liquidity error")
          /\ agents[call[r].agentId].usedCreditUsdc = call[r].agent.usedCreditUsdc
          /\ vault = call[r].preVault
    /\ result[r] = ErrorResult("Vault liquidity error")
       => /\ txs[call[r].idempotencyKey].status = "failed"
          /\ ~call[r].reserved

\* C13 witness: the pool could not cover the net amount of an approved payment
C13_Witness ==
  \E r \in Reqs :
    /\ pc[r] = "done" /\ call[r].begun /\ solo[r]
    /\ call[r].permChecks.allPassed
    /\ call[r].netAmountUsdc > availableLiquidity(vault)
    /\ result[r] = ErrorResult("Vault liquidity error")
    /\ vault.totalLent > 0

StatusOf(k) == IF txs[k] = NoTx THEN "none" ELSE txs[k].status

\* C14: a transaction that has entered broadcasting eventually reaches
\* confirmed or failed, also when the chain provider never answers.
C14_BroadcastEventuallySettles ==
  \A k \in Keys :
    (StatusOf(k) = "broadcasting") ~> (StatusOf(k) \in {"confirmed", "failed"})

Max(a, b) == IF a >= b THEN a ELSE b

\* the step in which call r runs the catch block
RollsBack(r) ==
  /\ pc[r] \in {"sign", "broadcast"}
  /\ pc'[r] = "done"
  /\ result'[r].kind = "error"

\* C18: the rollback of a failed payment releases only that payment's own
\* debit: usedCredit after it is usedCredit before it minus the amount,
\* floored at 0, so what other payments and repayments did to usedCredit in
\* between is still there.
C18_RollbackReleasesOwnDebit ==
  [][\A r \in Reqs :
       RollsBack(r) =>
         agents'[call[r].agentId].usedCreditUsdc
           = Max(0, agents[call[r].agentId].usedCreditUsdc - call[r].amountUsdc)]_vars

\* C19: totalFeesEarned is the sum of the fees of the confirmed transactions:
\* the fee is injected once on confirmation and never for a transaction that
\* ends failed or rejected.
C19_FeesAreFeesOfConfirmed ==
  vault.totalFeesEarned
    = SumOver({k \in Keys : StatusOf(k) = "confirmed"},
              [k \in Keys |-> IF txs[k] # NoTx THEN txs[k].fee_usdc ELSE 0])

\* the status changes the state machine allows
AllowedTransitions ==
  {<<"approved", "signing">>, <<"signing", "broadcasting">>,
   <<"broadcasting", "confirmed">>, <<"approved", "failed">>,
   <<"signing", "failed">>, <<"broadcasting", "failed">>}

\* C20: a record is created as approved or rejected, and its status then
\* changes only along approved -> signing -> broadcasting -> confirmed or
\* from approved, signing or broadcasting to failed.
C20_OnlyAllowedTransitions ==
  \A k \in Keys :
    /\ Len(statusLog[k]) > 0 => statusLog[k][1] \in {"approved", "rejected"}
    /\ \A i \in 1..(Len(statusLog[k]) - 1) :
         statusLog[k][i] # statusLog[k][i + 1]
           => <<statusLog[k][i], statusLog[k][i + 1]>> \in AllowedTransitions

\* C15: for every pair generateMPCKeyPair produces from a full scalar k and a
\* server shard s in [1, n-1], key generation does not throw, the agent shard
\* a = (k - s) mod n is a hex scalar with (s + a) mod n = k, and
\* verifyAgentShard returns true for it against the public key returned.
C15_KeyReconstruction ==
  /\ calc.op = "keygen" =>
       /\ ~calc.threw
       /\ calc.agentShard.hex
       /\ calc.agentShard.value
            = mod(calc.fullKey - calc.serverShard, CurveN)
       /\ mod(calc.serverShard + calc.agentShard.value, CurveN) = calc.fullKey
       /\ calc.publicKey = getPublicKey(calc.fullKey)
  /\ (calc.op = "verify" /\ calc.shard = calc.pair.agentShard) => calc.ok

\* C15 witness: a pair whose server shard exceeds the full scalar (k - s is
\* negative before the reduction) was verified with its own agent shard
C15_Witness ==
  /\ calc.op = "verify"
  /\ calc.pair.fullKey < calc.pair.serverShard
  /\ calc.shard = calc.pair.agentShard
  /\ calc.ok

\* the last operations of the floating-point vault are the given kinds
LastOps(kinds) ==
  /\ calc # NoCalc /\ calc.op = "vault"
  /\ Len(calc.ops) >= Len(kinds)
  /\ \A i \in 1..Len(kinds) :
       calc.ops[Len(calc.ops) - Len(kinds) + i].op = kinds[i]

\* C16: a deposit of D followed immediately by the withdrawal of all the
\* shares it issued pays back exactly D and returns totalDeposits and
\* totalShares to their values before the deposit, at any share price.
C16_DepositWithdrawRoundTrip ==
  LastOps(<<"deposit", "withdraw">>) =>
    LET n == Len(calc.ops)
        dep == calc.ops[n - 1]
        wd == calc.ops[n]
    IN wd.sharesToBurn = dep.sharesIssued =>
         /\ ~wd.threw
         /\ wd.amountUsdc = dep.amountUsdc
         /\ calc.totalDeposits = dep.pre.totalDeposits
         /\ calc.totalShares = dep.pre.totalShares

\* C17: a deposit of D into an empty vault issues D shares at price 1.0;
\* after a fee injection of F, withdrawing all D shares pays D + F and
\* records earnedYield = F for the lender.
C17_YieldLaw ==
  (LastOps(<<"deposit", "fee", "withdraw">>) /\ Len(calc.ops) = 3) =>
    LET dep == calc.ops[1]
        fee == calc.ops[2]
        wd == calc.ops[3]
    IN /\ dep.sharePrice = Unit
       /\ dep.sharesIssued = dep.amountUsdc
       /\ wd.sharesToBurn = dep.sharesIssued
       /\ ~wd.threw
       /\ wd.sharePrice = fdiv(dep.amountUsdc + fee.feeUsdc, dep.amountUsdc)
       /\ wd.amountUsdc = dep.amountUsdc + fee.feeUsdc
       /\ calc.positions[1].earned_yield_usdc = fee.feeUsdc
       /\ wd.yieldEarned = fee.feeUsdc

\* C21: a payment approved without an agent shard returns status signing
\* with awaitingAgentSignature = true, and at that point the vault's
\* totalLent has increased by netAmount and the agent's usedCredit by the
\* gross amount.
C21_NoShardHoldsReservation ==
  [][\A r \in Reqs :
       (/\ pc[r] = "create" /\ pc'[r] = "done"
        /\ result'[r].kind = "ok" /\ result'[r].status = "signing")
       => LET c == call[r] IN
          /\ c.agentPartialSignature = NoShard
          /\ result'[r].awaitingAgentSignature = True
          /\ txs'[c.idempotencyKey].status = "signing"
          /\ vault'.totalLent = vault.totalLent + c.netAmountUsdc
          /\ agents'[c.agentId].usedCreditUsdc =
               agents[c.agentId].usedCreditUsdc + c.amountUsdc]_vars

\* the call that created the record of key k returned awaiting the shard
AwaitingShard(k) ==
  /\ txs[k] # NoTx /\ txs[k].status = "signing"
  /\ \E r \in Reqs :
       /\ pc[r] = "done" /\ call[r].started /\ call[r].idempotencyKey = k
       /\ result[r].kind = "ok" /\ result[r].awaitingAgentSignature = True

\* a later call for key k carried the agent's shard
ShardSuppliedFor(k) ==
  \E r \in Reqs :
    /\ pc[r] = "done" /\ call[r].started /\ call[r].replay
    /\ call[r].idempotencyKey = k
    /\ call[r].agentPartialSignature = HexShard(AgentShardOf(call[r].agentId))

\* C22: a transaction left in signing because no agent shard was supplied
\* can be completed: once the caller supplies its shard for that
\* transaction, it proceeds to broadcast and ends confirmed or failed.
C22_SigningCompletesWithShard ==
  \A k \in Keys :
    (AwaitingShard(k) /\ ShardSuppliedFor(k))
      ~> (StatusOf(k) \in {"confirmed", "failed"})

\* C23: for every payment fee = amount * feeBps / 10000, where feeBps is the
\* named merchant's rate when a merchant is named and the default rate
\* otherwise, netAmount = amount - fee, and the recorded values satisfy
\* fee + netAmount = amount with 0 <= fee <= amount.
C23_FeeSplitsAmount ==
  calc.op = "fees" =>
    /\ calc.feeBps = IF calc.merchantId \in DOMAIN MerchantTable
                     THEN MerchantTable[calc.merchantId].fee_bps
                     ELSE MERCHANT_FEE_BPS
    /\ calc.feeUsdc = fdivInt(fmulInt(calc.amountUsdc, calc.feeBps), 10000)
    /\ calc.netAmountUsdc = fsub(calc.amountUsdc, calc.feeUsdc)
    /\ 0 <= calc.feeUsdc /\ calc.feeUsdc <= calc.amountUsdc
    /\ calc.feeUsdc + calc.netAmountUsdc = calc.amountUsdc

\* C24: processRepayment(agent, amount) with usedCredit > 0 repays
\* actualRepaid = min(amount, usedCredit) and decreases the agent's
\* usedCredit and the vault's totalLent by exactly actualRepaid in one step,
\* recording it; with usedCredit = 0 it fails and changes neither the agent,
\* the vault nor the repayment records.
C24_RepaymentIsCappedAndAtomic ==
  [][\A a \in AgentIds, amt \in RepayAmounts :
       processRepayment(a, amt) =>
         LET used == agents[a].usedCreditUsdc
             actualRepaid == IF amt <= used THEN amt ELSE used
         IN IF used > 0
            THEN /\ agents'[a].usedCreditUsdc = used - actualRepaid
                 /\ agents'[a].usedCreditUsdc >= 0
                 /\ vault'.totalLent = vault.totalLent - actualRepaid
                 /\ repayments' = Append(repayments,
                                    [agentId |-> a, amount |-> actualRepaid])
            ELSE /\ used = 0
                 /\ UNCHANGED <<agents, vault, repayments>>]_vars

\* a repayment capped at the balance has been recorded, and so has a
\* partial one
C24_Witness ==
  /\ Len(repayments) = 2
  /\ repayments[1].amount = 200
  /\ repayments[2].amount = 200
  /\ agents["a1"].usedCreditUsdc = 0

\* C25: processRepayment sets the agent's status to active exactly when the
\* agent was delinquent and the repayment brings usedCredit to 0; in every
\* other case the agent's status is unchanged.
C25_RepaymentRestoresActive ==
  [][\A a \in AgentIds, amt \in RepayAmounts :
       processRepayment(a, amt) =>
         agents'[a].status =
           IF /\ agents[a].status = "delinquent"
              /\ agents[a].usedCreditUsdc > 0
              /\ agents'[a].usedCreditUsdc = 0
           THEN "active"
           ELSE agents[a].status]_vars

\* a delinquent agent repaid part of its balance and is still delinquent
C25_Witness ==
  /\ agents["a1"].status = "delinquent"
  /\ agents["a1"].usedCreditUsdc = 200
  /\ Len(repayments) = 1
  /\ repayments[1].amount = 200

\* C26: adjustCreditLimit(agent, newLimit) fails and leaves the agent record
\* unchanged when newLimit < usedCredit or newLimit exceeds the system
\* maximum; otherwise it sets creditLimit to newLimit and leaves usedCredit
\* (and the rest of the record) unchanged.
C26_AdjustLimitGuards ==
  [][\A a \in AgentIds, lim \in LimitInputs :
       adjustCreditLimit(a, lim) =>
         IF lim < agents[a].usedCreditUsdc \/ lim > MAX_CREDIT_LIMIT_USDC
         THEN agents' = agents
         ELSE /\ agents'[a].creditLimitUsdc = lim
              /\ agents'[a].usedCreditUsdc = agents[a].usedCreditUsdc
              /\ agents' = [agents EXCEPT ![a].creditLimitUsdc = lim]]_vars

\* a limit was lowered to the balance held, and a second adjustment (below
\* the balance, or above the maximum) left it there
C26_Witness ==
  /\ agents["a1"].creditLimitUsdc = 200
  /\ agents["a1"].usedCreditUsdc = 200
  /\ envOps = 2
  /\ Len(repayments) = 0

\* the payout of a withdrawal of sh shares at the current share price
PayoutOf(sh) == (sh * SharePriceNum(vault)) \div SharePriceDen(vault)

\* C27: a withdrawal whose payout sharesToBurn * SharePrice() exceeds
\* availableLiquidity (totalDeposits - totalLent) fails and leaves the vault
\* totals and every lender position unchanged.
C27_WithdrawalNeedsLiquidity ==
  [][\A l \in Lenders, sh \in WithdrawShares :
       (/\ processWithdrawal(l, sh)
        /\ PayoutOf(sh) > vault.totalDeposits - vault.totalLent)
       => UNCHANGED <<vault, positions>>]_vars

\* money is lent out, the lender's whole holding exceeds what is left, and
\* a ledger operation ran in that state
C27_Witness ==
  /\ vault.totalLent > 0
  /\ envOps >= 1
  /\ positions[1].shares_owned = 600
  /\ vault.totalShares > 0
  /\ PayoutOf(600) > vault.totalDeposits - vault.totalLent

\* the last operation of the floating-point vault was a withdrawal
LastWithdrawal == calc.ops[Len(calc.ops)]

\* C28: a withdrawal of more shares than the lender's positions hold in
\* total fails and leaves the vault totals and all of the lender's positions
\* unchanged; a withdrawal of at most the lender's total shares, with
\* sufficient liquidity, succeeds whatever the state of the individual
\* positions.
C28_WithdrawalWithinHoldings ==
  LastOps(<<"withdraw">>) =>
    LET wd == LastWithdrawal IN
    /\ wd.sharesToBurn > wd.held =>
         /\ wd.threw
         /\ calc.totalDeposits = wd.pre.totalDeposits
         /\ calc.totalShares = wd.pre.totalShares
         /\ calc.positions = wd.pre.positions
    /\ (wd.sharesToBurn <= wd.held /\ wd.amountUsdc <= wd.available) =>
         ~wd.threw

\* the floating-point vault has seen no withdrawal up to the next state
NoWithdrawalYet ==
  /\ calc' # NoCalc /\ calc'.op = "vault"
  /\ \A i \in 1..Len(calc'.ops) : calc'.ops[i].op # "withdraw"

\* C29: absent withdrawals the share price is monotonic non-decreasing over
\* any sequence of deposits and fee injections (reservations and returns do
\* not touch totalDeposits or totalShares; the claim adds that every fee
\* injection of a positive amount strictly increases it).
C29_SharePriceMonotonic ==
  [][NoWithdrawalYet =>
       getSharePriceFl(calc') >= getSharePriceFl(FlVault)]_vars

\* a shard that is a scalar outside [1, n-1]
OutOfRange(shard) ==
  /\ shard.given /\ shard.hex
  /\ shard.value < 1 \/ shard.value > CurveN - 1

\* status appears among the statuses written for key k
WasEver(k, status) == \E i \in 1..Len(statusLog[k]) : statusLog[k][i] = status

\* C30: signing validates both shards: when the supplied agent shard lies
\* outside [1, n-1], signing fails before any key is reconstructed (the
\* transaction is never broadcast), and the payment ends failed with
\* liquidity and credit rolled back.
C30_OutOfRangeShardRejected ==
  \A r \in Reqs :
    (/\ call[r].started /\ call[r].begun /\ call[r].reserved
     /\ OutOfRange(call[r].agentPartialSignature))
    => LET k == call[r].idempotencyKey IN
       /\ ~WasEver(k, "broadcasting")
       /\ ~WasEver(k, "confirmed")
       /\ pc[r] = "done" =>
            /\ result[r].kind = "error"
            /\ txs[k].status = "failed"

\* C31: the reconstructed private scalar exists only transiently: on every
\* exit path of signing, including the paths where decryption or signing
\* throws, the reconstructed scalar has been zeroed.
C31_KeyZeroedOnExit ==
  \A r \in Reqs :
    (pc[r] = "done" /\ call[r].started /\ call[r].begun)
      => call[r].fullKeyHex # "live"

\* the completed verdicts of the calls in progress or finished
Verdicts == { r \in Reqs : call[r].started /\ call[r].begun
                            /\ call[r].permChecks # NoChecks }

CreditRow(row) ==
  IF row = NoAgent THEN row
  ELSE <<row.creditLimitUsdc, row.usedCreditUsdc, row.status>>

\* every agent but a keeps its creditLimit, usedCredit and status
OthersUntouched(a) ==
  \A b \in AgentIds \ {a} : CreditRow(agents'[b]) = CreditRow(agents[b])

\* C33: a processPayment or processRepayment call for agent A never changes
\* creditLimit, usedCredit or status of any other agent, including the
\* recipient agent of an agent_to_agent payment.
C33_OtherAgentsUntouched ==
  [][ /\ \A r \in Reqs :
           pc'[r] # pc[r] => OthersUntouched(call'[r].agentId)
      /\ \A a \in AgentIds, amt \in RepayAmounts :
           processRepayment(a, amt) => OthersUntouched(a) ]_vars

\* an agent_to_agent payment has debited its payer while the recipient, with
\* a balance of its own, is registered; a repayment has been recorded
C33_Witness ==
  /\ \E k \in Keys :
       /\ txs[k] # NoTx
       /\ txs[k].type = "agent_to_agent"
       /\ \E i \in DOMAIN statusLog[k] : statusLog[k][i] = "signing"
       /\ agents[txs[k].recipient_agent_id].usedCreditUsdc > 0
  /\ repayments # <<>>

\* the columns of a transactions row that txQueries.create sets and no
\* UPDATE statement names
CreatedColumns(tx) ==
  <<tx.id, tx.agent_id, tx.merchant_id, tx.recipient_agent_id, tx.amount_usdc,
    tx.fee_usdc, tx.net_amount_usdc, tx.type, tx.recipient_address,
    tx.idempotency_key, tx.permission_checks>>

\* C34: after a transaction record is created, its agentId, amount, fee,
\* netAmount, type, recipientAddress, idempotencyKey and verdict snapshot
\* never change (the row is never removed either); only status, txHash and
\* the settlement timestamp are ever modified.
C34_CreatedFieldsFrozen ==
  [][ \A k \in Keys :
        txs[k] # NoTx =>
          /\ txs'[k] # NoTx
          /\ CreatedColumns(txs'[k]) = CreatedColumns(txs[k]) ]_vars

\* a transaction whose status, hash and settlement timestamp were all
\* written after its creation, while a second call carried the same key
C34_Witness ==
  \E k \in Keys :
    /\ txs[k] # NoTx
    /\ Len(statusLog[k]) >= 3
    /\ txs[k].tx_hash # Null
    /\ txs[k].settled_at # Null
    /\ \A r \in Reqs : call[r].started /\ call[r].idempotencyKey = k

\* C35: in every reachable state the vault's totalShares equals the sum of
\* sharesOwned over all lender positions, and no position has negative
\* sharesOwned, after any sequence of deposits and successful or failed
\* withdrawals.
C35_SharesConserved ==
  /\ vault.totalShares = SharesHeld(positions, Len(positions))
  /\ \A i \in DOMAIN positions : positions[i].shares_owned >= 0

\* C36: yield accounting is independent of how a withdrawal is split: when
\* all shares of a position have been burnt, in one withdrawal or in several
\* partial ones, the position's accumulated earnedYield is the total amount
\* paid out minus the original deposit: 0 when no fee was injected and the
\* shares were issued and burnt at the price 1.0.
C36_YieldIndependentOfSplit ==
  (vault.totalFeesEarned = 0 /\ SharePriceNum(vault) = SharePriceDen(vault))
    => \A i \in DOMAIN positions :
         positions[i].shares_owned = 0
           => positions[i].earned_yield_usdc = 0

\* C37: every liquidity reservation is reversed by failure or repayment: in
\* every reachable state in which every agent's usedCredit is 0 and no
\* transaction is in status signing or broadcasting, the vault's totalLent
\* is 0.
C37_ReservationsReversed ==
  ( /\ \A a \in Registered : agents[a].usedCreditUsdc = 0
    /\ \A k \in Keys :
         txs[k] # NoTx => txs[k].status \notin {"signing", "broadcasting"} )
  => vault.totalLent = 0

\* C38: when wallet funding fails during registerAgent (the gas transfer or
\* the USDC transfer throws after reserveLiquidity succeeded), registration
\* still succeeds with walletFunded = false and the vault's totalLent equals
\* its value before the registration.
C38_FailedFundingReleasesReservation ==
  [][ \A a \in AgentIds, lim \in RequestedLimits :
        (registerAgent(a, lim) /\ agents'[a].funding = "threw")
          => /\ agents'[a].registered
             /\ agents'[a].walletFunded = FALSE
             /\ vault'.totalLent = vault.totalLent ]_vars

\* C39: in every reachable state a transaction has a txHash and a settlement
\* timestamp only if its status is confirmed: a transaction in status failed
\* or rejected has neither.
C39_HashOnlyWhenConfirmed ==
  \A k \in Keys :
    (txs[k] # NoTx /\ txs[k].status # "confirmed")
      => (txs[k].tx_hash = Null /\ txs[k].settled_at = Null)

====
